---- MODULE Spec2Model ----
(***************************************************************************)
(* A model of tap_sentry/sync.py: the Sentry client (retrying GET, link    *)
(* pagination, bookmark filtering) and the per-stream sync procedures of   *)
(* SentrySync.                                                             *)
(*                                                                         *)
(* Representation.  A timestamp is a clock tick (an integer); the ISO      *)
(* string that singer.utils.strftime writes for a tick is represented by   *)
(* the tick it denotes.  A domain record (issue, event, team, user) is     *)
(* represented by its id, a positive integer.  Junk (0) stands for a       *)
(* string: what iterating the JSON object of an error body yields.         *)
(***************************************************************************)
EXTENDS Integers, Sequences, FiniteSets

VARIABLES
    projects,         \* SentrySync.projects: the project list cached by __init__
    state,            \* SentrySync._state: the bookmarks, key -> tick or None
    clock,            \* singer.utils.now()
    pc,               \* position of the running sync procedure
    stream,           \* the stream of the current invocation
    idx,              \* index into projects of the per-project loop
    extraction_time,  \* the local extraction_time of sync_issues / sync_events
    result,           \* what the last awaited client call returned
    issues_synced,    \* the local list issues_synced of sync_issues
    emitted,          \* singer messages written by the current invocation
    state0,           \* the bookmarks when the current invocation started
    start_clock,      \* the clock when the current invocation started
    fetched,          \* records returned by the project fetches of the invocation
    attempts,         \* per-project client calls of the invocation, in order
    remote_failed,    \* whether a request of the invocation met a remote failure
    inflight,         \* client calls handed to the executor and not yet returned
    passed,           \* the mapping given to SentrySync(client, state), as its
                      \* other holders see it
    called,           \* client call under test: which method was called
    chain,            \* client call under test: the page chain the remote served
    bm,               \* client call under test: the activity.start bookmark
    ret,              \* client call under test: what the call returned
    tries,            \* one GET: the outcome of every HTTP attempt so far
    outcome,          \* one GET: "pending", "response" or "error"
    api_token,        \* SentryAuthentication.api_token
    req_headers,      \* the headers of a request handed to SentryAuthentication
    decorated         \* whether SentryAuthentication.__call__ has run on it

vars == <<projects, state, clock, pc, stream, idx, extraction_time, result,
          issues_synced, emitted, state0, start_clock, fetched, attempts,
          remote_failed, inflight, passed, called, chain, bm, ret, tries, outcome,
          api_token, req_headers, decorated>>

syncVars == <<projects, state, clock, pc, stream, idx, extraction_time, result,
              issues_synced, emitted, state0, start_clock, fetched, attempts,
              remote_failed, inflight, passed>>
clientVars == <<called, chain, bm, ret>>
getVars == <<tries, outcome>>
authVars == <<api_token, req_headers, decorated>>

(***************************************************************************)
(* Bounds and sample domains                                               *)
(***************************************************************************)
MaxProjects == 2
MaxPages == 2

\* Python's None, as returned by get_bookmark for a missing bookmark.
None == -1
Junk == 0
RecordIds == {1, 2}
\* page payloads: JSON lists of records
Bodies == {<<>>, <<1>>, <<2>>}
\* dateCreated values of remote activity; an earlier run's bookmark lies
\* strictly between two of them, and the clock starts after all of them
Dates == {0, 1, 2}
OldBookmark == CHOOSE d \in Dates : (d - 1) \in Dates /\ (d + 1) \in Dates
FirstTick == (CHOOSE d \in Dates : \A e \in Dates : e <= d) + 1
BookmarkKeys == {"issues", "activity", "events"}
Streams == {"issues", "projects", "events", "users", "teams"}


(***************************************************************************)
(* The remote: responses and page chains                                   *)
(***************************************************************************)
\* response.links, as requests parses the Link header (always a dict):
\*   empty          {}
\*   noNext         non-empty, without a "next" relation
\*   nextNoResults  a "next" relation without a "results" flag
\*   nextTrue       next relation with results="true"
\*   nextFalse      next relation (and URL) with results="false"
Links == {"empty", "noNext", "nextNoResults", "nextTrue", "nextFalse"}

\* What one self.session.get can come to:
\*   ok          a 2xx response with a JSON list
\*   http_error  a non-2xx response that the session returns (status not in
\*               the retry list); its body is a JSON object
\*   malformed   a response whose body is not JSON
\*   exception   the session raised (retries exhausted, connection error)
Kinds == {"ok", "http_error", "malformed", "exception"}

Resp(k, b, l) == [kind |-> k, body |-> b, links |-> l]

ResponsesOf(bodies) ==
    {Resp("ok", b, l) : b \in bodies, l \in Links}
        \cup {Resp("http_error", <<Junk>>, l) : l \in Links}
        \cup {Resp("malformed", <<>>, "empty"), Resp("exception", <<>>, "empty")}

\* The remote has a further page exactly when it answers with results="true".
HasMore(r) == r.kind \in {"ok", "http_error"} /\ r.links = "nextTrue"

RECURSIVE ChainsOfLen(_, _)
ChainsOfLen(bodies, n) ==
    IF n = 1
    THEN {<<r>> : r \in {x \in ResponsesOf(bodies) : ~HasMore(x)}}
    ELSE {<<r>> \o c : r \in {x \in ResponsesOf(bodies) : HasMore(x)},
                        c \in ChainsOfLen(bodies, n - 1)}

\* finite page chains: every page but the last announces a further page
ChainsOf(bodies) == UNION {ChainsOfLen(bodies, n) : n \in 1..MaxPages}

Chains == ChainsOf(Bodies)

Activity(d, i) == [dateCreated |-> d, issue |-> i]
\* issue = None: the activity carries no issue
Activities == {Activity(d, i) : d \in Dates, i \in RecordIds \cup {None}}
\* a page's payload: no entry, one entry, or an entry from before the old
\* bookmark followed by a later one
ActivityBodies ==
    {<<>>} \cup {<<a>> : a \in Activities}
        \cup {<<a, b>> : a \in {x \in Activities : x.dateCreated < OldBookmark /\ x.issue # None},
                          b \in {x \in Activities : x.dateCreated > OldBookmark /\ x.issue # None}}
ActivityChains == ChainsOf(ActivityBodies)

\* the response to the k-th request of a traversal; a URL past the end of the
\* chain does not exist
Page(c, k) == IF k <= Len(c) THEN c[k] ELSE Resp("http_error", <<Junk>>, "empty")

(***************************************************************************)
(* SentryClient                                                            *)
(***************************************************************************)
\* What a client call comes to: it raised, or it returned records (none: the
\* Python value None); fetches counts the requests it sent.
Raised(n) == [raised |-> TRUE, none |-> FALSE, records |-> <<>>, fetches |-> n]
Returned(recs, n) == [raised |-> FALSE, none |-> FALSE, records |-> recs, fetches |-> n]
ReturnedNone(n) == [raised |-> FALSE, none |-> TRUE, records |-> <<>>, fetches |-> n]

\* _get: session.get, then raise_for_status
GetRaises(r) == r.kind \in {"exception", "http_error"}

\* a bare self.session.get(url), as the pagination loops call it
SessionGetRaises(r) == r.kind = "exception"

\* response.json()
JsonRaises(r) == r.kind = "malformed"

\* variant: a loop that follows any next relation, whatever its results flag
LoopCondNextOnly(l) ==
    CASE l = "empty" -> "stop"
      [] l \in {"noNext", "nextNoResults"} -> "raise"
      [] l \in {"nextTrue", "nextFalse"} -> "continue"

\* The condition of the pagination loops:
\*   links is not None and len(links) > 0 and links['next']['results'] == 'true'
\* "raise" is the KeyError of a missing 'next' or 'results'.
LoopCond(l) ==
    CASE l = "empty" -> "stop"
      [] l \in {"noNext", "nextNoResults"} -> "raise"
      [] l = "nextTrue" -> "continue"
      [] l = "nextFalse" -> "stop"

\* The while loop of issues, events and teams, entered with the response of
\* request k and the records accumulated so far.
RECURSIVE FollowPages(_, _, _)
FollowPages(c, k, acc) ==
    LET cond == LoopCond(Page(c, k).links)
        r == Page(c, k + 1)
    IN  IF cond = "raise" THEN Raised(k)
        ELSE IF cond = "stop" THEN Returned(acc, k)
        ELSE IF SessionGetRaises(r) \/ JsonRaises(r) THEN Raised(k + 1)
        ELSE FollowPages(c, k + 1, acc \o r.body)

\* The first request of issues, events, teams and users, through _get.
FirstPage(c) ==
    IF GetRaises(Page(c, 1)) \/ JsonRaises(Page(c, 1))
    THEN Raised(1)
    ELSE Returned(Page(c, 1).body, 1)

Paginate(c) ==
    IF FirstPage(c).raised THEN Raised(1) ELSE FollowPages(c, 1, Page(c, 1).body)

issues(c) == Paginate(c)

teams(c) == Paginate(c)

\* users: one request, no pagination loop
users(c) == FirstPage(c)

\* events: the body of issues inside try / except: return None
events(c) ==
    IF Paginate(c).raised THEN ReturnedNone(Paginate(c).fetches) ELSE Paginate(c)

\* variant: no date filter
FilterNone(body, bookmark) == body

\* _filter_activities on a parsed body: the entries with
\* parse(activity['dateCreated']) >= bookmark, in order
_filter_activities(body, bookmark) ==
    SelectSeq(body, LAMBDA a : a.dateCreated >= bookmark)

\* iterating an error object yields strings; activity['dateCreated'] on a
\* string is a TypeError
FilterRaises(r) == r.kind = "http_error"

\* The while loop of activity, entered with the response of request k.
RECURSIVE FollowActivity(_, _, _, _)
FollowActivity(c, bookmark, k, acc) ==
    LET cond == LoopCond(Page(c, k).links)
        r == Page(c, k + 1)
        new_activities == _filter_activities(r.body, bookmark)
    IN  IF cond = "raise" THEN Raised(k)
        ELSE IF cond = "stop" THEN Returned(acc, k)
        ELSE IF SessionGetRaises(r) \/ JsonRaises(r) \/ FilterRaises(r) THEN Raised(k + 1)
        ELSE IF new_activities = <<>> THEN Returned(acc, k + 1)
        ELSE FollowActivity(c, bookmark, k + 1, acc \o new_activities)

\* activity: dateutil.parser.parse(None) raises before any request is sent
activity(c, bookmark) ==
    IF bookmark = None THEN Raised(0)
    ELSE IF GetRaises(Page(c, 1)) \/ JsonRaises(Page(c, 1)) THEN Raised(1)
    ELSE IF _filter_activities(Page(c, 1).body, bookmark) = <<>> THEN Returned(<<>>, 1)
    ELSE FollowActivity(c, bookmark, 1, _filter_activities(Page(c, 1).body, bookmark))

(***************************************************************************)
(* singer: messages and bookmarks                                          *)
(***************************************************************************)
\* variant: every procedure writes the schema under the issues stream
SchemaMsgOfIssues(s) == [type |-> "SCHEMA", stream |-> "issues", key |-> "id"]

KeyOf(s) == IF s = "events" THEN "eventID" ELSE "id"
SchemaMsg(s) == [type |-> "SCHEMA", stream |-> s, key |-> KeyOf(s)]
RecordMsg(s, r) == [type |-> "RECORD", stream |-> s, record |-> r]
StateMsg(v) == [type |-> "STATE", value |-> v]

RecordMsgs(s, recs) == [i \in 1..Len(recs) |-> RecordMsg(s, recs[i])]

\* singer.get_bookmark(state, stream, "start")
get_bookmark(st, s) == st[s]

\* singer.write_bookmark(state, stream, "start", value)
write_bookmark(st, s, v) == [st EXCEPT ![s] = v]

\* singer.write_bookmark stores into the dict it is given and returns that
\* same dict, and self._state is the dict the constructor was given: what a
\* holder of the dict before the write reads from it after the write
HeldAfterWrite(before, after) == after

(***************************************************************************)
(* SentrySync                                                              *)
(***************************************************************************)
\* the bookmarks an engine is constructed with: none (a first run), those of
\* an earlier complete run, or issues.start alone
BookmarkStates ==
    {[k \in BookmarkKeys |-> None],
     [k \in BookmarkKeys |-> OldBookmark],
     [k \in BookmarkKeys |-> IF k = "issues" THEN OldBookmark ELSE None]}

ProjectLists == {[i \in 1..n |-> i] : n \in 0..MaxProjects}

\* the engine, the client and the session before any call
InitSync ==
    /\ projects \in ProjectLists
    /\ state \in BookmarkStates
    /\ clock = FirstTick
    /\ pc = "idle"
    /\ stream = "none"
    /\ idx = 1
    /\ extraction_time = None
    /\ result = <<>>
    /\ issues_synced = <<>>
    /\ emitted = <<>>
    /\ state0 = state
    /\ start_clock = None
    /\ fetched = <<>>
    /\ attempts = <<>>
    /\ remote_failed = FALSE
    /\ inflight = 0
    /\ passed = state
    /\ called = "none"
    /\ chain = <<>>
    /\ bm = None
    /\ ret = Returned(<<>>, 0)
    /\ tries = <<>>
    /\ outcome = "pending"

\* no request has been handed to the authentication hook
NoRequest ==
    /\ api_token = ""
    /\ req_headers = <<>>
    /\ decorated = FALSE

Init == InitSync /\ NoRequest

\* variant: the time of the write
NowAtWrite == clock

\* the value written as a bookmark: singer.utils.strftime(extraction_time)
BookmarkValue == extraction_time

\* where a sync procedure goes after its first statements
FirstStep(s) ==
    CASE s = "issues" -> IF projects # <<>> THEN "issues_fetch" ELSE "issues_bookmark"
      [] s = "events" -> IF projects # <<>> THEN "events_fetch" ELSE "done"
      [] s = "projects" -> "projects_emit"
      [] s = "users" -> "users_fetch"
      [] s = "teams" -> "teams_fetch"

\* sync(stream, schema) up to the first await: write_schema, and in
\* sync_issues and sync_events extraction_time = now()
Start(s) ==
    /\ pc = "idle"
    /\ stream' = s
    /\ emitted' = <<SchemaMsg(s)>>
    /\ extraction_time' = IF s \in {"issues", "events"} THEN clock ELSE None
    /\ start_clock' = clock
    /\ state0' = state
    /\ idx' = 1
    /\ result' = <<>>
    /\ issues_synced' = <<>>
    /\ fetched' = <<>>
    /\ attempts' = <<>>
    /\ pc' = FirstStep(s)
    /\ clock' = clock + 1
    /\ UNCHANGED <<projects, state>>
    /\ remote_failed' = FALSE
    /\ UNCHANGED <<inflight, passed>>
    /\ UNCHANGED <<clientVars, getVars, authVars>>

Tick == clock' = clock + 1

\* an exception leaves the sync procedure: nothing after it runs
Fail ==
    /\ pc' = "failed"
    /\ UNCHANGED <<state, idx, issues_synced, emitted>>

InList(x, l) == \E i \in 1..Len(l) : l[i] = x

\* index of the first entry on which issue['id'] raises (a string); 0 if none
FirstJunk(recs) ==
    IF InList(Junk, recs)
    THEN CHOOSE i \in 1..Len(recs) : recs[i] = Junk /\ \A j \in 1..(i - 1) : recs[j] # Junk
    ELSE 0

\* whether a client call met a remote failure: it raised, or gave up, after
\* it had sent a request
RemoteFailure(r) == (r.raised \/ r.none) /\ r.fetches > 0

\* whether what the call returned holds the keys of an error body: a later
\* page answered with an error status and was taken in unchecked
ErrorBody(r) == InList(Junk, r.records)

\* the filter of the issues request: "?query=lastSeen:>=" + bookmark when a
\* bookmark exists
issues_query(st) == [start |-> get_bookmark(st, "issues"), end |-> None]

\* variant: the window ends at the extraction time of the invocation
events_query_to_extraction(st, now) ==
    [start |-> get_bookmark(st, "events"),
     end |-> IF get_bookmark(st, "events") # None THEN extraction_time ELSE None]

\* the filter of the events request: "&start=" + bookmark + "&utc=true" +
\* "&end=" + strftime(now()) when a bookmark exists
events_query(st, now) ==
    [start |-> get_bookmark(st, "events"),
     end |-> IF get_bookmark(st, "events") # None THEN now ELSE None]

\* Everything a client call can come to, over all page chains the remote can
\* serve.
IssuesOutcomes == {issues(c) : c \in Chains}
EventsOutcomes == {events(c) : c \in Chains}
TeamsOutcomes == {teams(c) : c \in Chains}
UsersOutcomes == {users(c) : c \in Chains}
ActivityOutcomes(bookmark) == {activity(c, bookmark) : c \in ActivityChains}
ActivityOutcomesOld == ActivityOutcomes(OldBookmark)

\* the positions at which a sync procedure awaits a client call
FetchPcs == {"issues_fetch", "activity_fetch", "events_fetch", "users_fetch",
             "teams_fetch"}

\* variant: the call is scheduled and the coroutine goes on without awaiting
NeverSuspended == FALSE

\* await: the coroutine stays suspended while the call it submitted is
\* pending
Suspended == inflight > 0

\* loop.run_in_executor(None, self.client.<method>, ...): the call is handed
\* to the executor; the fetch actions below are its return
Submit ==
    /\ pc \in FetchPcs
    /\ ~Suspended
    /\ inflight' = inflight + 1
    /\ UNCHANGED <<projects, state, clock, pc, stream, idx, extraction_time, result,
                   issues_synced, emitted, state0, start_clock, fetched, attempts,
                   remote_failed, passed>>
    /\ UNCHANGED <<clientVars, getVars, authVars>>

\* ---- sync_issues ----

\* issues = await run_in_executor(client.issues, project['slug'], state)
IssuesFetch ==
    /\ pc = "issues_fetch"
    /\ inflight > 0
    /\ \E r \in IssuesOutcomes :
          /\ attempts' = Append(attempts, [project |-> projects[idx], failed |-> r.raised,
                                           query |-> issues_query(state)])
          /\ result' = r.records
          /\ remote_failed' = (remote_failed \/ RemoteFailure(r) \/ ErrorBody(r))
          /\ fetched' = fetched \o r.records
          /\ IF r.raised
             THEN Fail
             ELSE /\ pc' = "issues_emit"
                  /\ UNCHANGED <<state, idx, issues_synced, emitted>>
    /\ Tick
    /\ UNCHANGED <<projects, stream, extraction_time, state0, start_clock>>
    /\ inflight' = inflight - 1
    /\ UNCHANGED passed
    /\ UNCHANGED <<clientVars, getVars, authVars>>

\* for issue in issues: issues_synced.append(issue['id']); write_record
IssuesEmit ==
    /\ pc = "issues_emit"
    /\ LET j == FirstJunk(result)
           good == IF j = 0 THEN result ELSE SubSeq(result, 1, j - 1)
       IN  /\ issues_synced' = issues_synced \o good
           /\ emitted' = emitted \o RecordMsgs("issues", good)
           /\ IF j # 0 THEN pc' = "failed" /\ idx' = idx
              ELSE IF idx < Len(projects) THEN pc' = "issues_fetch" /\ idx' = idx + 1
              ELSE pc' = "issues_bookmark" /\ idx' = idx
    /\ Tick
    /\ UNCHANGED <<projects, state, stream, extraction_time, result, state0,
                   start_clock, fetched, attempts>>
    /\ UNCHANGED <<remote_failed, inflight, passed>>
    /\ UNCHANGED <<clientVars, getVars, authVars>>

\* self.state = write_bookmark(self.state, 'issues', 'start', extraction_time)
IssuesBookmark ==
    /\ pc = "issues_bookmark"
    /\ state' = write_bookmark(state, "issues", BookmarkValue)
    /\ emitted' = Append(emitted, StateMsg(state'))
    /\ pc' = "activity_fetch"
    /\ Tick
    /\ UNCHANGED <<projects, stream, idx, extraction_time, result, issues_synced,
                   state0, start_clock, fetched, attempts>>
    /\ passed' = HeldAfterWrite(passed, state')
    /\ UNCHANGED <<remote_failed, inflight>>
    /\ UNCHANGED <<clientVars, getVars, authVars>>

\* activities = await run_in_executor(client.activity, state)
ActivityFetch ==
    /\ pc = "activity_fetch"
    /\ inflight > 0
    /\ \E r \in (IF get_bookmark(state, "activity") = OldBookmark
                 THEN ActivityOutcomesOld
                 ELSE ActivityOutcomes(get_bookmark(state, "activity"))) :
          /\ result' = r.records
          /\ remote_failed' = (remote_failed \/ RemoteFailure(r))
          /\ IF r.raised
             THEN Fail
             ELSE /\ pc' = "activity_emit"
                  /\ UNCHANGED <<state, idx, issues_synced, emitted>>
    /\ Tick
    /\ UNCHANGED <<projects, stream, extraction_time, state0, start_clock,
                   fetched, attempts>>
    /\ inflight' = inflight - 1
    /\ UNCHANGED passed
    /\ UNCHANGED <<clientVars, getVars, authVars>>

\* The issues that the loop over issue_activities emits, in order, given the
\* ids synced so far.
RECURSIVE NewIssues(_, _)
NewIssues(acts, synced) ==
    IF acts = <<>> THEN <<>>
    ELSE IF Head(acts).issue # None /\ ~InList(Head(acts).issue, synced)
         THEN <<Head(acts).issue>>
                  \o NewIssues(Tail(acts), Append(synced, Head(acts).issue))
         ELSE NewIssues(Tail(acts), synced)

\* for activity in issue_activities: emit the issues not yet in issues_synced
ActivityEmit ==
    /\ pc = "activity_emit"
    /\ issues_synced' = issues_synced \o NewIssues(result, issues_synced)
    /\ emitted' = emitted \o RecordMsgs("issues", NewIssues(result, issues_synced))
    /\ pc' = "activity_bookmark"
    /\ Tick
    /\ UNCHANGED <<projects, state, stream, idx, extraction_time, result, state0,
                   start_clock, fetched, attempts>>
    /\ UNCHANGED <<remote_failed, inflight, passed>>
    /\ UNCHANGED <<clientVars, getVars, authVars>>

\* self.state = write_bookmark(self.state, 'activity', 'start', extraction_time)
ActivityBookmark ==
    /\ pc = "activity_bookmark"
    /\ state' = write_bookmark(state, "activity", BookmarkValue)
    /\ emitted' = Append(emitted, StateMsg(state'))
    /\ pc' = "done"
    /\ Tick
    /\ UNCHANGED <<projects, stream, idx, extraction_time, result, issues_synced,
                   state0, start_clock, fetched, attempts>>
    /\ passed' = HeldAfterWrite(passed, state')
    /\ UNCHANGED <<remote_failed, inflight>>
    /\ UNCHANGED <<clientVars, getVars, authVars>>

\* ---- sync_projects ----

\* for project in self.projects: write_record
ProjectsEmit ==
    /\ pc = "projects_emit"
    /\ emitted' = emitted \o RecordMsgs("projects", projects)
    /\ pc' = "done"
    /\ Tick
    /\ UNCHANGED <<projects, state, stream, idx, extraction_time, result,
                   issues_synced, state0, start_clock, fetched, attempts>>
    /\ UNCHANGED <<remote_failed, inflight, passed>>
    /\ UNCHANGED <<clientVars, getVars, authVars>>

\* ---- sync_events ----

\* events = await run_in_executor(client.events, project['id'], state)
EventsFetch ==
    /\ pc = "events_fetch"
    /\ inflight > 0
    /\ \E r \in EventsOutcomes :
          /\ attempts' = Append(attempts, [project |-> projects[idx], failed |-> r.none,
                                           query |-> events_query(state, clock)])
          /\ result' = r.records
          /\ remote_failed' = (remote_failed \/ RemoteFailure(r) \/ ErrorBody(r))
          /\ fetched' = fetched \o r.records
    /\ pc' = "events_emit"
    /\ Tick
    /\ UNCHANGED <<projects, state, stream, idx, extraction_time, issues_synced,
                   emitted, state0, start_clock>>
    /\ inflight' = inflight - 1
    /\ UNCHANGED passed
    /\ UNCHANGED <<clientVars, getVars, authVars>>

\* if events: for event in events: write_record
EventsEmit ==
    /\ pc = "events_emit"
    /\ emitted' = emitted \o RecordMsgs("events", result)
    /\ IF idx < Len(projects)
       THEN pc' = "events_fetch" /\ idx' = idx + 1
       ELSE pc' = "events_bookmark" /\ idx' = idx
    /\ Tick
    /\ UNCHANGED <<projects, state, stream, extraction_time, result, issues_synced,
                   state0, start_clock, fetched, attempts>>
    /\ UNCHANGED <<remote_failed, inflight, passed>>
    /\ UNCHANGED <<clientVars, getVars, authVars>>

\* self.state = write_bookmark(self.state, 'events', 'start', extraction_time),
\* inside "if self.projects:"
EventsBookmark ==
    /\ pc = "events_bookmark"
    /\ state' = write_bookmark(state, "events", BookmarkValue)
    /\ emitted' = Append(emitted, StateMsg(state'))
    /\ pc' = "done"
    /\ Tick
    /\ UNCHANGED <<projects, stream, idx, extraction_time, result, issues_synced,
                   state0, start_clock, fetched, attempts>>
    /\ passed' = HeldAfterWrite(passed, state')
    /\ UNCHANGED <<remote_failed, inflight>>
    /\ UNCHANGED <<clientVars, getVars, authVars>>

\* ---- sync_users, sync_teams ----

\* users = await run_in_executor(client.users, state)
UsersFetch ==
    /\ pc = "users_fetch"
    /\ inflight > 0
    /\ \E r \in UsersOutcomes :
          /\ result' = r.records
          /\ remote_failed' = (remote_failed \/ RemoteFailure(r))
          /\ IF r.raised
             THEN Fail
             ELSE /\ pc' = "list_emit"
                  /\ UNCHANGED <<state, idx, issues_synced, emitted>>
    /\ Tick
    /\ UNCHANGED <<projects, stream, extraction_time, state0, start_clock,
                   fetched, attempts>>
    /\ inflight' = inflight - 1
    /\ UNCHANGED passed
    /\ UNCHANGED <<clientVars, getVars, authVars>>

\* teams = await run_in_executor(client.teams, state)
TeamsFetch ==
    /\ pc = "teams_fetch"
    /\ inflight > 0
    /\ \E r \in TeamsOutcomes :
          /\ result' = r.records
          /\ remote_failed' = (remote_failed \/ RemoteFailure(r) \/ ErrorBody(r))
          /\ IF r.raised
             THEN Fail
             ELSE /\ pc' = "list_emit"
                  /\ UNCHANGED <<state, idx, issues_synced, emitted>>
    /\ Tick
    /\ UNCHANGED <<projects, stream, extraction_time, state0, start_clock,
                   fetched, attempts>>
    /\ inflight' = inflight - 1
    /\ UNCHANGED passed
    /\ UNCHANGED <<clientVars, getVars, authVars>>

\* variant: a bookmark written after the records
StateAfterListWritten == write_bookmark(state, "issues", clock)

\* the state that sync_users and sync_teams leave behind (their bookmark
\* writes are commented out)
StateAfterList == state

\* for user in users: write_record / for team in teams: write_record
ListEmit ==
    /\ pc = "list_emit"
    /\ emitted' = emitted \o RecordMsgs(stream, result)
    /\ state' = StateAfterList
    /\ pc' = "done"
    /\ Tick
    /\ UNCHANGED <<projects, stream, idx, extraction_time, result, issues_synced,
                   state0, start_clock, fetched, attempts>>
    /\ UNCHANGED <<remote_failed, inflight, passed>>
    /\ UNCHANGED <<clientVars, getVars, authVars>>

Next ==
    \/ \E s \in Streams : Start(s)
    \/ Submit
    \/ IssuesFetch
    \/ IssuesEmit
    \/ IssuesBookmark
    \/ ActivityFetch
    \/ ActivityEmit
    \/ ActivityBookmark
    \/ ProjectsEmit
    \/ EventsFetch
    \/ EventsEmit
    \/ EventsBookmark
    \/ UsersFetch
    \/ TeamsFetch
    \/ ListEmit

Spec == Init /\ [][Next]_vars

(***************************************************************************)
(* The client's methods as functions of the page chain the remote serves   *)
(***************************************************************************)
InitClient ==
    /\ Init
    /\ projects = <<>>
    /\ \A k \in BookmarkKeys : state[k] = None

\* the call under test and what it came to
Called(name, c, b, r) == called' = name /\ chain' = c /\ bm' = b /\ ret' = r

CallIssues ==
    /\ called = "none"
    /\ \E c \in Chains : Called("issues", c, None, issues(c))
    /\ UNCHANGED <<syncVars, getVars, authVars>>

CallEvents ==
    /\ called = "none"
    /\ \E c \in Chains : Called("events", c, None, events(c))
    /\ UNCHANGED <<syncVars, getVars, authVars>>

CallTeams ==
    /\ called = "none"
    /\ \E c \in Chains : Called("teams", c, None, teams(c))
    /\ UNCHANGED <<syncVars, getVars, authVars>>

CallUsers ==
    /\ called = "none"
    /\ \E c \in Chains : Called("users", c, None, users(c))
    /\ UNCHANGED <<syncVars, getVars, authVars>>

CallActivity ==
    /\ called = "none"
    /\ \E c \in ActivityChains, b \in {None, OldBookmark} :
          Called("activity", c, b, activity(c, b))
    /\ UNCHANGED <<syncVars, getVars, authVars>>

NextClient == CallIssues \/ CallEvents \/ CallTeams \/ CallUsers \/ CallActivity

SpecClient == InitClient /\ [][NextClient]_vars

(***************************************************************************)
(* One GET through _get: the session's Retry policy, then raise_for_status *)
(***************************************************************************)
\* Retry(total=5, status_forcelist=[429, 500, 502, 503, 504])
RetryTotal == 5
StatusForcelist == {429, 500, 502, 503, 504}

\* what one HTTP attempt comes to: a status, or no response at all
ConnErrors == {0}
SampleStatuses == {200, 304, 404, 429, 503}
AttemptResults == SampleStatuses \cup ConnErrors

\* variant: every failed attempt is retried
IsRetryAnyFailure(a) == a \in ConnErrors \/ a >= 400

\* urllib3 retries an attempt that got no response, or a listed status
IsRetry(a) == a \in ConnErrors \/ a \in StatusForcelist

\* Retry.increment / is_exhausted after that many failed attempts: the
\* remaining total has dropped below zero
Exhausted(failures) == RetryTotal - failures < 0

\* Response.raise_for_status raises for 4xx and 5xx
RaiseForStatus(a) == 400 <= a /\ a < 600

Attempt ==
    /\ outcome = "pending"
    /\ \E a \in AttemptResults :
          /\ tries' = Append(tries, a)
          /\ outcome' = IF IsRetry(a)
                        THEN IF Exhausted(Len(tries) + 1) THEN "error" ELSE "pending"
                        ELSE IF RaiseForStatus(a) THEN "error" ELSE "response"
    /\ UNCHANGED <<syncVars, clientVars, authVars>>

NextGet == Attempt

SpecGet == InitClient /\ [][NextGet]_vars

(***************************************************************************)
(* SentryAuthentication: the hook requests runs on every prepared request  *)
(***************************************************************************)
Tokens == {"", "t", "tok", "s3cr3t"}
HeaderNames == {"Accept", "Authorization", "User-Agent"}
HeaderValues == {"*/*", "Bearer old"}

\* the headers a prepared request can carry when the hook is called
RequestHeaders == UNION {[D -> HeaderValues] : D \in SUBSET HeaderNames}

\* dict.update({name: value})
HeadersUpdate(h, name, value) ==
    [n \in DOMAIN h \cup {name} |-> IF n = name THEN value ELSE h[n]]

\* " Bearer " + self.api_token
AuthorizationValue(token) == " Bearer " \o token

InitAuth ==
    /\ InitSync
    /\ projects = <<>>
    /\ \A k \in BookmarkKeys : state[k] = None
    /\ api_token \in Tokens
    /\ req_headers \in RequestHeaders
    /\ decorated = FALSE

\* SentryAuthentication.__call__(req)
AuthCall ==
    /\ ~decorated
    /\ req_headers' = HeadersUpdate(req_headers, "Authorization",
                                    AuthorizationValue(api_token))
    /\ decorated' = TRUE
    /\ UNCHANGED api_token
    /\ UNCHANGED <<syncVars, clientVars, getVars>>

NextAuth == AuthCall

SpecAuth == InitAuth /\ [][NextAuth]_vars

(***************************************************************************)
(* Properties                                                              *)
(***************************************************************************)
Last(l) == l[Len(l)]

\* the STATE messages of the invocation, in order
StateMsgs == SelectSeq(emitted, LAMBDA m : m.type = "STATE")

\* the records of the invocation's RECORD messages, in order
EmittedRecords ==
    LET recs == SelectSeq(emitted, LAMBDA m : m.type = "RECORD")
    IN  [i \in 1..Len(recs) |-> recs[i].record]

Count(x, l) == Cardinality({i \in 1..Len(l) : l[i] = x})

RECURSIVE ConcatBodies(_)
ConcatBodies(c) == IF c = <<>> THEN <<>> ELSE Head(c).body \o ConcatBodies(Tail(c))

\* C1: every bookmark that sync_issues or sync_events writes is the time
\* captured when the invocation started, before its first fetch: each STATE
\* message differs from the bookmarks at the start only by that time, a
\* completed sync_issues has written it to issues.start and activity.start,
\* and a completed sync_events over some project to events.start.
C1_BookmarkIsStartTime ==
    /\ \A i \in 1..Len(emitted) :
          emitted[i].type = "STATE" =>
              \A k \in BookmarkKeys :
                  emitted[i].value[k] # state0[k] =>
                      emitted[i].value[k] = start_clock /\ start_clock < clock
    /\ (pc = "done" /\ stream = "issues") =>
          /\ Len(StateMsgs) = 2
          /\ StateMsgs[1].value = [state0 EXCEPT !["issues"] = start_clock]
          /\ StateMsgs[2].value =
                 [state0 EXCEPT !["issues"] = start_clock, !["activity"] = start_clock]
          /\ state = StateMsgs[2].value
    /\ (pc = "done" /\ stream = "events" /\ projects # <<>>) =>
          /\ Len(StateMsgs) = 1
          /\ StateMsgs[1].value = [state0 EXCEPT !["events"] = start_clock]
          /\ state = StateMsgs[1].value

\* a sync_issues that fetched and emitted issues, took time, and completed
C1_Witness ==
    /\ pc = "done"
    /\ stream = "issues"
    /\ Len(fetched) >= 2
    /\ Len(result) >= 1
    /\ clock > start_clock + 4
    /\ state["issues"] = start_clock
    /\ state["activity"] = start_clock

\* C2: within one invocation no RECORD message follows a STATE message.
C2_NoRecordAfterState ==
    \A i \in 1..Len(emitted) : \A j \in 1..Len(emitted) :
        (i < j /\ emitted[i].type = "STATE") => emitted[j].type # "RECORD"

\* a chain of N 2xx pages, the first N-1 announcing a further page with
\* results="true" and the last carrying a next relation with results="false"
WellFormedChain(c) ==
    /\ c # <<>>
    /\ \A i \in 1..Len(c) : c[i].kind = "ok"
    /\ \A i \in 1..(Len(c) - 1) : c[i].links = "nextTrue"
    /\ Last(c).links = "nextFalse"

\* C3: over a finite chain of N pages whose last page says results="false",
\* issues, events and teams send exactly N requests, end at page N and return
\* the records of all N pages in the order served.
C3_PaginationExact ==
    (called \in {"issues", "events", "teams"} /\ WellFormedChain(chain)) =>
        /\ ~ret.raised
        /\ ~ret.none
        /\ ret.fetches = Len(chain)
        /\ ret.records = ConcatBodies(chain)

\* two pages, one record each, returned in order
C3_Witness ==
    /\ called = "teams"
    /\ WellFormedChain(chain)
    /\ Len(chain) = 2
    /\ ret.fetches = 2
    /\ ret.records = <<2, 1>>

\* the issues of the retained activities that sync_issues looked at
ActivityIssues == {result[i].issue : i \in 1..Len(result)} \ {None}

\* C4: an issue X that the project fetches returned and that a retained
\* activity references is emitted exactly once in the run.
C4_ExactlyOnce ==
    (pc = "done" /\ stream = "issues") =>
        \A x \in RecordIds :
            (InList(x, fetched) /\ x \in ActivityIssues) =>
                Count(x, EmittedRecords) = 1

\* C5: sync_events never aborts; it attempts every project in order, emits
\* the records of the projects whose fetch succeeded, and then writes
\* events.start.
C5_EventsSkipAndBookmark ==
    /\ stream = "events" => pc # "failed"
    /\ (stream = "events" /\ pc = "done") =>
          /\ [i \in 1..Len(attempts) |-> attempts[i].project] = projects
          /\ EmittedRecords = fetched
          /\ Last(emitted).type = "STATE"
          /\ Last(emitted).value["events"] = start_clock
          /\ state["events"] = start_clock

\* C6: when sync_issues fails, no bookmark has been advanced: the bookmarks
\* held are those of the start and no STATE message was written.
C6_FailureKeepsBookmarks ==
    (stream = "issues" /\ pc = "failed") =>
        /\ state = state0
        /\ StateMsgs = <<>>

\* C7: every entry that client.activity returns, from the first page or a
\* later one, has dateCreated >= the activity.start bookmark; sync_issues
\* extracts issues from exactly these entries.
C7_ActivityFiltered ==
    /\ (called = "activity" /\ ~ret.raised) =>
          \A i \in 1..Len(ret.records) : ret.records[i].dateCreated >= bm
    /\ (stream = "issues" /\ pc \in {"activity_emit", "activity_bookmark", "done"}) =>
          \A i \in 1..Len(result) :
              result[i].dateCreated >= get_bookmark(state0, "activity")

\* both pages hold an entry from before the bookmark and one after it; the
\* call returns the two later ones
C7_Witness ==
    /\ called = "activity"
    /\ bm = OldBookmark
    /\ Len(chain) = 2
    /\ \A k \in 1..2 : /\ chain[k].kind = "ok"
                        /\ Len(chain[k].body) = 2
                        /\ chain[k].body[1].dateCreated < bm
    /\ ~ret.raised
    /\ Len(ret.records) = 2

\* C8: sync_projects, sync_users and sync_teams write no bookmark and no
\* STATE message: the bookmarks held stay those of the start, whether the
\* invocation succeeds or fails.
C8_NoBookmarkStreams ==
    stream \in {"projects", "users", "teams"} =>
        /\ state = state0
        /\ StateMsgs = <<>>

\* a sync_teams that emitted records and completed, with bookmarks present
C8_Witness ==
    /\ stream = "teams"
    /\ pc = "done"
    /\ Len(EmittedRecords) = 2
    /\ state["issues"] = OldBookmark

C10_LaterPageErrorSurfaces ==
    (/\ called \in {"issues", "teams"}
     /\ \E k \in 2..ret.fetches : Page(chain, k).kind = "http_error") =>
        ret.raised

\* C11: a bookmark write leaves the object that held the state before the
\* write as it was: whoever else holds the mapping given to the SentrySync
\* constructor still reads from it the bookmarks of the start of the
\* invocation.
C11_HoldersSeeOldState == passed = state0

\* C12: the call of SentryAuthentication on a request sets its Authorization
\* header to exactly "Bearer " followed by the token, and leaves every other
\* header of the request as it was.
C12_BearerHeaderExact ==
    [][(~decorated /\ decorated') =>
          /\ DOMAIN req_headers' = DOMAIN req_headers \cup {"Authorization"}
          /\ req_headers'["Authorization"] = "Bearer " \o api_token
          /\ \A n \in DOMAIN req_headers \ {"Authorization"} :
                req_headers'[n] = req_headers[n]]_vars

\* C13: across one sync_issues invocation no issue id is emitted more than
\* once, whether it repeats within one project's pages, across two projects,
\* between an issues fetch and an activity entry, or among activity entries.
C13_NoIssueEmittedTwice ==
    stream = "issues" => \A x \in RecordIds : Count(x, EmittedRecords) <= 1

\* C14: when the users or teams listing spans N > 1 pages linked by next
\* relations with results="true", the call behind sync_users and sync_teams
\* returns the records of all N pages, in the order served.
C14_ListsAllPages ==
    (called \in {"users", "teams"} /\ WellFormedChain(chain) /\ Len(chain) > 1) =>
        /\ ~ret.raised
        /\ ret.records = ConcatBodies(chain)

\* a chain of well-served pages that ends at a page whose links are not
\* empty but have no next relation, or a next relation without results flag
EndsMalformed(c) ==
    /\ c # <<>>
    /\ \A i \in 1..Len(c) : c[i].kind = "ok"
    /\ \A i \in 1..(Len(c) - 1) : c[i].links = "nextTrue"
    /\ Last(c).links \in {"noNext", "nextNoResults"}

\* C15: a page whose links are non-empty but carry no next relation, or whose
\* next relation has no results flag, ends the traversal of issues, activity,
\* events and teams normally: no error, and the records accumulated so far
\* are returned.
C15_MalformedLinksEndTraversal ==
    (/\ called \in {"issues", "activity", "events", "teams"}
     /\ EndsMalformed(chain)
     /\ called = "activity" => bm # None) =>
        /\ ~ret.raised
        /\ ~ret.none
        /\ called # "activity" => ret.records = ConcatBodies(chain)

\* C16: every sync procedure writes exactly one SCHEMA message per
\* invocation, for its own stream and before any other message, also when a
\* later fetch fails.
C16_SchemaFirstOnce ==
    pc # "idle" =>
        /\ emitted # <<>>
        /\ emitted[1].type = "SCHEMA"
        /\ emitted[1].stream = stream
        /\ Cardinality({i \in 1..Len(emitted) : emitted[i].type = "SCHEMA"}) = 1

\* a sync_issues invocation that failed at a fetch after emitting records:
\* the schema message is still the first and only one
C16_Witness ==
    /\ pc = "failed"
    /\ stream = "issues"
    /\ Len(emitted) > 1
    /\ emitted[1].type = "SCHEMA"

IsPrefix(a, b) == Len(a) <= Len(b) /\ SubSeq(b, 1, Len(a)) = a

\* C17: within one invocation at most one client call is in flight; the
\* procedure goes on (emits, writes a bookmark, ends) only when no call is
\* pending, and the records it has emitted in the per-project loops are
\* records of fetches that have returned, in the order returned.
C17_OneCallInFlight ==
    /\ inflight \in {0, 1}
    /\ pc \notin FetchPcs => inflight = 0
    /\ (stream = "events" \/ pc \in {"issues_fetch", "issues_emit"}) =>
          IsPrefix(EmittedRecords, fetched)

\* the second project's call is pending after the first project's records
\* were emitted
C17_Witness ==
    /\ stream = "events"
    /\ pc = "events_fetch"
    /\ idx = 2
    /\ inflight = 1
    /\ EmittedRecords # <<>>

\* C18: from an empty state and with every remote call succeeding,
\* sync_issues runs to completion: its issues requests carry no filter, the
\* activity step does not fail, and the invocation ends with issues.start and
\* activity.start both set.
C18_FirstRunCompletes ==
    (/\ stream = "issues"
     /\ \A k \in BookmarkKeys : state0[k] = None
     /\ ~remote_failed) =>
        /\ \A i \in 1..Len(attempts) : attempts[i].query.start = None
        /\ pc # "failed"
        /\ pc = "done" => (state["issues"] # None /\ state["activity"] # None)

\* the entries of a list of activities dated at or after the bookmark
Qualifying(acts, bookmark) == SelectSeq(acts, LAMBDA a : a.dateCreated >= bookmark)

\* the pages of a chain before its first page without a qualifying entry
RECURSIVE LeadingPages(_, _)
LeadingPages(c, bookmark) ==
    IF c = <<>> \/ Qualifying(Head(c).body, bookmark) = <<>> THEN <<>>
    ELSE <<Head(c)>> \o LeadingPages(Tail(c), bookmark)

\* the entries of the chain are served newest first, and no empty page comes
\* before a page with entries
NewestFirst(c) ==
    /\ \A i, j \in 1..Len(ConcatBodies(c)) :
          i < j => ConcatBodies(c)[i].dateCreated >= ConcatBodies(c)[j].dateCreated
    /\ \A i, j \in 1..Len(c) : (i < j /\ c[i].body = <<>>) => c[j].body = <<>>

C20_WindowEndsAtExtraction ==
    stream = "events" =>
        \A i \in 1..Len(attempts) :
            /\ attempts[i].query.start = get_bookmark(state0, "events")
            /\ attempts[i].query.end =
                  IF get_bookmark(state0, "events") # None THEN extraction_time ELSE None

\* C20, amended: with an events.start bookmark, every events request asks for
\* start = the bookmark and end = the clock read when that request is built:
\* after the extraction time that is written as events.start, and later for
\* each next project; without a bookmark it carries no start and no end.
C20_WindowEndsAtRequestTime ==
    stream = "events" =>
        \A i \in 1..Len(attempts) :
            /\ attempts[i].query.start = get_bookmark(state0, "events")
            /\ get_bookmark(state0, "events") = None => attempts[i].query.end = None
            /\ get_bookmark(state0, "events") # None =>
                  /\ attempts[i].query.end > extraction_time
                  /\ attempts[i].query.end < clock
                  /\ \A j \in 1..(i - 1) : attempts[j].query.end < attempts[i].query.end

\* a completed sync_events over two projects with a bookmark: two different
\* window ends, both after the time written as events.start
C20_Witness ==
    /\ stream = "events"
    /\ pc = "done"
    /\ get_bookmark(state0, "events") = OldBookmark
    /\ Len(attempts) = 2
    /\ attempts[1].query.end < attempts[2].query.end
    /\ get_bookmark(state, "events") = extraction_time
    /\ get_bookmark(state, "events") < attempts[1].query.end

====
